---- MODULE Spec2Model ----
(***************************************************************************)
(* Model of the paper-reading pipeline: main.py (download, per-item OCR    *)
(* subprocess, analysis), src/ocr_engine.py (the extraction unit) and      *)
(* src/analyzer.py (the analyzers and the single-item analysis command).   *)
(***************************************************************************)
EXTENDS Integers, Sequences, FiniteSets, TLC

\* ---- bounds of the model ----
NumItems == 2
MaxPages == 2
MaxRuns == 2

Items == 1..NumItems

\* ---- file contents, abstracted to what the code inspects ----
\* a payload file: absent, at most 1024 bytes, or larger (scraper.py:77)
PdfStates == {"absent", "small", "big"}
\* full_extracted.md: absent, zero bytes, or non-empty
MarkerStates == {"absent", "empty", "partial", "full"}
\* analysis_report.md: absent, zero bytes, a report, or the hosted analyzer's error text
ReportStates == {"absent", "empty", "partial", "report", "error_text"}

NoDir == [exists |-> FALSE, pages |-> 0, full_extracted |-> "absent",
          analysis_report |-> "absent"]

VARIABLES
    num_pages,       \* item -> number of page images convert_from_path yields
    original_dir,    \* item -> state of original_papers/<item>.pdf
    extracted_dir,   \* item -> state of extracted_papers/<item>/
    cmd,             \* command being run or last run
    args,            \* the pipeline command's parsed arguments
    pc,              \* position of main.py's main
    papers,          \* download futures not yet completed
    pdf_files,       \* main.py's pdf_files list
    k,               \* index of the loop over pdf_files
    unit_pc,         \* position of the OCR subprocess
    unit_i,          \* page index of the subprocess's loop
    runs,            \* commands started so far
    fetches,         \* payload requests sent in this run
    launches,        \* OCR subprocesses launched in this run
    analyses,        \* analyzer.analyze calls in this run
    ocr_result,      \* item -> how its OCR invocation ended in this run
    analysis_result, \* item -> what the analyzer backend did in this run
    rerun,           \* this run repeats the previous pipeline run's arguments
    start_complete,  \* every item was complete on disk when this run started
    disk_at_start,   \* the artifacts on disk when this run started
    \* scraper.py main and process_downloads
    s_pc,            \* position of scraper.py's main
    current_batch,   \* the batch of the retry loop
    retry_count,     \* the retry loop's counter
    queued,          \* submitted download_pdf calls no worker has taken yet
    in_flight,       \* download_pdf calls a worker is running
    failures,        \* process_downloads' failures list
    statuses,        \* item -> the statuses its download_pdf calls returned in this run
    served,          \* what the source did to the last request that was sent
    failed_downloads, \* lines of failed_downloads.txt
    \* run_ocr_robust.py and ocr_engine.py in batch mode
    sup_pc,          \* position of run_ocr
    engine_pc,       \* position of the batch engine process
    files,           \* the batch engine's sorted files list
    file_k,          \* index of the batch engine's loop over files
    page_i,          \* page index of process_pdf inside the batch engine
    exit_code,       \* exit code of the last batch engine process
    sup_launches,    \* batch engine processes run_ocr has started
    \* one call of process_downloads on a batch larger than the pool
    pool_pc,         \* position of process_downloads
    futures,         \* paper -> state of its future
    pool_failures,   \* the failures list of the call
    \* PaperContent of analyzer.py
    content_pc,      \* position of _load_pages
    page_dirs,       \* the entries of <paper_dir>/pages
    page_folders,    \* the sorted list _load_pages walks
    pages            \* PaperContent.pages

vars == <<num_pages, original_dir, extracted_dir, cmd, args, pc, papers, pdf_files, k,
          unit_pc, unit_i, runs, fetches, launches, analyses, ocr_result,
          analysis_result, rerun, start_complete, disk_at_start,
          s_pc, current_batch, retry_count, queued, in_flight, failures, statuses,
          served, failed_downloads,
          sup_pc, engine_pc, files, file_k, page_i, exit_code, sup_launches,
          pool_pc, futures, pool_failures, content_pc, page_dirs, page_folders, pages>>

scraper_vars == <<s_pc, current_batch, retry_count, queued, in_flight, failures,
                  statuses, served, failed_downloads>>
robust_vars == <<sup_pc, engine_pc, files, file_k, page_i, exit_code, sup_launches>>
pool_vars == <<pool_pc, futures, pool_failures>>
content_vars == <<content_pc, page_dirs, page_folders, pages>>
pipeline_vars == <<cmd, args, pc, papers, pdf_files, k, unit_pc, unit_i, fetches,
                   launches, analyses, ocr_result, analysis_result, rerun,
                   start_complete, disk_at_start>>

disk == <<original_dir, extracted_dir>>
run_local == <<papers, pdf_files, k, unit_pc, unit_i>>
counters == <<fetches, launches, analyses>>
history == <<ocr_result, analysis_result, rerun, start_complete, disk_at_start>>

Min(a, b) == IF a < b THEN a ELSE b
Max(a, b) == IF a > b THEN a ELSE b

RECURSIVE SortedSeq(_)
SortedSeq(S) ==
    IF S = {} THEN <<>>
    ELSE LET m == CHOOSE x \in S : \A y \in S : x <= y
         IN <<m>> \o SortedSeq(S \ {m})

\* papers[:limit] and pdf_files[:limit] under "if args.limit:" (0 stands for None)
Truncate(s, limit) == IF limit = 0 THEN s ELSE SubSeq(s, 1, Min(limit, Len(s)))

\* the catalog get_neurips_2025_papers returns
Catalog == SortedSeq(Items)

\* sorted([f for f in os.listdir(input_dir) if f.endswith('.pdf')]) of the batch engine
listdir_pdf == SortedSeq({i \in Items : original_dir[i] # "absent"})

\* the parsed arguments of main.py; --provider is read only when the analysis runs
ArgSet ==
    {a \in [limit : 0..NumItems, skip_download : BOOLEAN, skip_ocr : BOOLEAN,
            skip_analysis : BOOLEAN, provider : {"local", "online"}] :
        a.skip_analysis => a.provider = "local"}

NoArgs == [limit |-> 0, skip_download |-> FALSE, skip_ocr |-> FALSE,
           skip_analysis |-> FALSE, provider |-> "local"]

\* the snapshot kept for a run that neither repeats a run nor starts complete
NoSnapshot == <<[i \in Items |-> "absent"], [i \in Items |-> NoDir]>>

\* ThreadPoolExecutor(max_workers=5) of process_downloads
max_workers == 5

\* the batch of the process_downloads call of the pool specification: two papers
\* more than the pool has workers
PoolPapers == 1..(max_workers + 2)

\* the page numbers of the folders page_<n> that pages/ can hold
PageNums == {1, 2, 10}

\* the names of the crop files images/ can hold, as their characters
CropNames == {<<1>>, <<1, 0>>, <<2>>}

\* a folder page_<n>: its crops, another file in images/, and original.jpg
PageDirStates ==
    [exists : BOOLEAN, images_dir : BOOLEAN, crops : SUBSET CropNames,
     other_file : BOOLEAN, original : BOOLEAN]

NoPageDir == [exists |-> FALSE, images_dir |-> FALSE, crops |-> {},
              other_file |-> FALSE, original |-> FALSE]

\* no request has been served in this run
NotServed == [item |-> 0, before |-> "absent", n503 |-> 0, outcome |-> "none"]

\* failed_downloads.txt has not been written (written_in: the run that wrote it)
NoLedger == [written_in |-> 0, lines |-> <<>>]

Terminal == {"idle", "completed", "returned", "raised", "killed"}

\* the state of every command before it is invoked, and an empty extracted_papers
InitCommands ==
    /\ num_pages \in [Items -> 0..MaxPages]
    /\ extracted_dir = [i \in Items |-> NoDir]
    /\ cmd = "none"
    /\ args = NoArgs
    /\ pc = "idle"
    /\ papers = {}
    /\ pdf_files = <<>>
    /\ k = 1
    /\ unit_pc = "none"
    /\ unit_i = 0
    /\ runs = 0
    /\ fetches = 0
    /\ launches = 0
    /\ analyses = 0
    /\ ocr_result = [i \in Items |-> "none"]
    /\ analysis_result = [i \in Items |-> "none"]
    /\ rerun = FALSE
    /\ start_complete = FALSE
    /\ disk_at_start = NoSnapshot
    /\ s_pc = "idle"
    /\ current_batch = <<>>
    /\ retry_count = 0
    /\ queued = {}
    /\ in_flight = {}
    /\ failures = <<>>
    /\ statuses = [i \in Items |-> <<>>]
    /\ served = NotServed
    /\ failed_downloads = NoLedger
    /\ sup_pc = "idle"
    /\ engine_pc = "none"
    /\ files = <<>>
    /\ file_k = 1
    /\ page_i = 0
    /\ exit_code = "none"
    /\ sup_launches = 0
    /\ pool_pc = "idle"
    /\ futures = [p \in PoolPapers |-> "none"]
    /\ pool_failures = <<>>
    /\ content_pc = "idle"
    /\ page_folders = <<>>
    /\ pages = <<>>

\* no pages directory
NoPages == page_dirs = [n \in PageNums |-> NoPageDir]

Init ==
    /\ InitCommands
    /\ NoPages
    /\ original_dir = [i \in Items |-> "absent"]


\* ------------------------------------------------------------------------
\* Completion checks
\* ------------------------------------------------------------------------

\* main.py: already_extracted (exists and getsize > 0)
already_extracted(i) == extracted_dir[i].full_extracted \in {"partial", "full"}

\* main.py: os.path.exists(.../full_extracted.md) of the analysis gate
extraction_marker_exists(i) == extracted_dir[i].full_extracted # "absent"

\* main.py: os.path.exists(.../analysis_report.md) of the analysis gate
analysis_marker_exists(i) == extracted_dir[i].analysis_report # "absent"

\* ocr_engine.py batch mode: "Skip if already processed"
batch_skip(i) ==
    extracted_dir[i].exists /\ extracted_dir[i].full_extracted # "absent"

\* every item has a payload above the size threshold, a non-empty extraction
\* marker and an analysis marker
Complete ==
    \A i \in Items :
        /\ original_dir[i] = "big"
        /\ extracted_dir[i].full_extracted = "full"
        /\ extracted_dir[i].analysis_report # "absent"

\* ------------------------------------------------------------------------
\* Step 1 of main.py: download
\* ------------------------------------------------------------------------

\* what the request of download_pdf can do
DownloadOutcomes ==
    {"ok_big", "ok_small", "http_error", "network_error",
     "other_error_nofile", "other_error_small", "other_error_big"}

\* download_pdf without the test for an existing file: every call sends a request
download_pdf_always_fetch(f, o) ==
    CASE o = "ok_big" -> [file |-> "big", status |-> "success", fetched |-> TRUE]
      [] o = "ok_small" -> [file |-> "small", status |-> "success", fetched |-> TRUE]
      [] o \in {"http_error", "network_error", "other_error_nofile"} ->
             [file |-> f, status |-> "error", fetched |-> TRUE]
      [] o = "other_error_small" -> [file |-> "small", status |-> "error", fetched |-> TRUE]
      [] o = "other_error_big" -> [file |-> "big", status |-> "error", fetched |-> TRUE]

\* download_pdf taking every existing file for a valid one, whatever its size
download_pdf_skip_existing(f, o) ==
    IF f # "absent"
    THEN [file |-> f, status |-> "skipped", fetched |-> FALSE]
    ELSE download_pdf_always_fetch(f, o)

\* download_pdf on a target file in state f when the request ends as o:
\* the file afterwards, the returned status, and whether a request was sent
download_pdf(f, o) ==
    IF f = "big"
    THEN [file |-> f, status |-> "skipped", fetched |-> FALSE]
    ELSE CASE o = "ok_big" -> [file |-> "big", status |-> "success", fetched |-> TRUE]
           [] o = "ok_small" -> [file |-> "small", status |-> "success", fetched |-> TRUE]
           [] o = "http_error" -> [file |-> "absent", status |-> "error", fetched |-> TRUE]
           [] o = "network_error" -> [file |-> "absent", status |-> "error", fetched |-> TRUE]
           [] o = "other_error_nofile" ->
                  [file |-> "absent", status |-> "error", fetched |-> TRUE]
           [] o = "other_error_small" ->
                  [file |-> "small", status |-> "error", fetched |-> TRUE]
           [] o = "other_error_big" ->
                  [file |-> "big", status |-> "error", fetched |-> TRUE]

SeqRange(s) == {s[j] : j \in 1..Len(s)}

StartPipeline(a) ==
    /\ pc \in Terminal
    /\ runs < MaxRuns
    /\ runs' = runs + 1
    /\ cmd' = "pipeline"
    /\ args' = a
    /\ papers' = IF a.skip_download THEN {} ELSE SeqRange(Truncate(Catalog, a.limit))
    /\ pc' = IF papers' = {} THEN "list_files" ELSE "download"
    /\ pdf_files' = <<>>
    /\ k' = 1
    /\ fetches' = 0
    /\ launches' = 0
    /\ analyses' = 0
    /\ ocr_result' = [i \in Items |-> "none"]
    /\ analysis_result' = [i \in Items |-> "none"]
    /\ rerun' = (cmd = "pipeline" /\ a = args)
    /\ start_complete' = Complete
    /\ disk_at_start' = IF rerun' \/ start_complete' THEN disk ELSE NoSnapshot
    /\ unit_i' = 0
    /\ UNCHANGED <<scraper_vars, robust_vars, pool_vars, content_vars, num_pages, original_dir, extracted_dir, unit_pc>>

\* one future of the ThreadPoolExecutor completes
DownloadPdf(p, o) ==
    /\ pc = "download"
    /\ p \in papers
    /\ LET r == download_pdf(original_dir[p], o) IN
        /\ original_dir' = [original_dir EXCEPT ![p] = r.file]
        /\ fetches' = IF r.fetched THEN fetches + 1 ELSE fetches
    /\ papers' = papers \ {p}
    /\ pc' = IF papers' = {} THEN "list_files" ELSE "download"
    /\ UNCHANGED <<scraper_vars, robust_vars, pool_vars, content_vars, num_pages, extracted_dir, cmd, args, pdf_files, k, unit_pc, unit_i,
                   runs, launches, analyses, history>>

\* os.listdir(original_dir) filtered by '.pdf': the files in any order, since
\* main.py does not sort the listing
listdir_orders ==
    LET present == {i \in Items : original_dir[i] # "absent"} IN
    {s \in [1..Cardinality(present) -> present] :
        \A a, b \in DOMAIN s : a # b => s[a] # s[b]}

\* main.py lines 48-80: list the payloads, construct the analyzer
ListFiles(init_ok, listing) ==
    /\ pc = "list_files"
    /\ listing \in listdir_orders
    /\ pdf_files' = Truncate(listing, args.limit)
    /\ pc' = IF pdf_files' = <<>> THEN "returned"
             ELSE IF ~args.skip_analysis /\ ~init_ok THEN "returned"
             ELSE "ocr"
    /\ k' = 1
    /\ UNCHANGED <<scraper_vars, robust_vars, pool_vars, content_vars, num_pages, disk, cmd, args, papers, unit_pc, unit_i, runs, counters,
                   history>>


\* ------------------------------------------------------------------------
\* Step 2 of main.py: OCR of one item in a subprocess
\* ------------------------------------------------------------------------

\* the item of the current iteration of "for pdf_file in pdf_files"
pdf_file == pdf_files[k]

\* a cleanup that leaves the directory where it is
rmtree_keep(i) == extracted_dir

\* shutil.rmtree(paper_extracted_path), under "if os.path.exists(...)"
rmtree(i) == [extracted_dir EXCEPT ![i] = NoDir]

UnitRunning == unit_pc \in {"load_model", "convert", "pages", "write_marker", "return"}

\* the launch with Popen in place of subprocess.run: main goes on at once
Ocr_no_wait(launch_ok) ==
    /\ pc = "ocr"
    /\ IF args.skip_ocr \/ already_extracted(pdf_file)
       THEN /\ pc' = "analysis"
            /\ UNCHANGED <<extracted_dir, unit_pc, unit_i, launches, ocr_result>>
       ELSE /\ launches' = launches + 1
            /\ unit_i' = 0
            /\ pc' = "analysis"
            /\ unit_pc' = IF launch_ok THEN "load_model" ELSE "none"
            /\ UNCHANGED <<extracted_dir, ocr_result>>
    /\ UNCHANGED <<scraper_vars, robust_vars, pool_vars, content_vars, num_pages, original_dir, cmd, args, papers, pdf_files, k, runs,
                   fetches, analyses, analysis_result, rerun, start_complete,
                   disk_at_start>>

\* main.py lines 88-102: the extraction gate and the launch of the subprocess
Ocr(launch_ok) ==
    /\ pc = "ocr"
    /\ IF args.skip_ocr \/ already_extracted(pdf_file)
       THEN /\ pc' = "analysis"
            /\ UNCHANGED <<extracted_dir, unit_pc, unit_i, launches, ocr_result>>
       ELSE /\ launches' = launches + 1
            /\ unit_i' = 0
            /\ IF launch_ok
               THEN /\ pc' = "ocr_wait"
                    /\ unit_pc' = "load_model"
                    /\ UNCHANGED <<extracted_dir, ocr_result>>
               ELSE \* except Exception (lines 122-126)
                    /\ pc' = "analysis"
                    /\ unit_pc' = "none"
                    /\ extracted_dir' = rmtree(pdf_file)
                    /\ ocr_result' = [ocr_result EXCEPT ![pdf_file] = "launch_error"]
    /\ UNCHANGED <<scraper_vars, robust_vars, pool_vars, content_vars, num_pages, original_dir, cmd, args, papers, pdf_files, k, runs,
                   fetches, analyses, analysis_result, rerun, start_complete,
                   disk_at_start>>

\* main.py lines 104-115: subprocess.run returned
OcrReturn ==
    /\ pc = "ocr_wait"
    /\ unit_pc \in {"exit0", "exit1", "aborted"}
    /\ IF unit_pc # "exit0"
       THEN /\ extracted_dir' = rmtree(pdf_file)
            /\ ocr_result' = [ocr_result EXCEPT ![pdf_file] = "nonzero"]
       ELSE /\ ocr_result' = [ocr_result EXCEPT ![pdf_file] = "exit0"]
            /\ UNCHANGED extracted_dir
    /\ unit_pc' = "none"
    /\ unit_i' = 0
    /\ pc' = "analysis"
    /\ UNCHANGED <<scraper_vars, robust_vars, pool_vars, content_vars, num_pages, original_dir, cmd, args, papers, pdf_files, k, runs,
                   counters, analysis_result, rerun, start_complete, disk_at_start>>

\* the timeout branch without its rmtree
OcrTimeout_no_cleanup ==
    /\ pc = "ocr_wait"
    /\ unit_pc \in {"load_model", "convert", "pages", "write_marker", "return"}
    /\ ocr_result' = [ocr_result EXCEPT ![pdf_file] = "timeout"]
    /\ unit_pc' = "none"
    /\ unit_i' = 0
    /\ pc' = "analysis"
    /\ UNCHANGED <<scraper_vars, robust_vars, pool_vars, content_vars, num_pages, original_dir, extracted_dir, cmd, args, papers, pdf_files,
                   k, runs, counters, analysis_result, rerun, start_complete,
                   disk_at_start>>

\* main.py lines 117-121: subprocess.run kills the unit and raises TimeoutExpired
OcrTimeout ==
    /\ pc = "ocr_wait"
    /\ UnitRunning
    /\ extracted_dir' = rmtree(pdf_file)
    /\ ocr_result' = [ocr_result EXCEPT ![pdf_file] = "timeout"]
    /\ unit_pc' = "none"
    /\ unit_i' = 0
    /\ pc' = "analysis"
    /\ UNCHANGED <<scraper_vars, robust_vars, pool_vars, content_vars, num_pages, original_dir, cmd, args, papers, pdf_files, k, runs,
                   counters, analysis_result, rerun, start_complete, disk_at_start>>

\* ------------------------------------------------------------------------
\* The extraction unit: ocr_engine.py in single paper mode
\* ------------------------------------------------------------------------

UnitFrame ==
    UNCHANGED <<scraper_vars, robust_vars, pool_vars, content_vars, num_pages, original_dir, cmd, args, pc, papers, pdf_files, k, runs,
                counters, history>>

\* OCREngine(): _load_model raises on failure, caught at line 140
UnitLoadModel(ok) ==
    /\ unit_pc = "load_model"
    /\ unit_pc' = IF ok THEN "convert" ELSE "exit1"
    /\ UNCHANGED <<extracted_dir, unit_i>>
    /\ UnitFrame

\* the conversion step under a command that drops the result of process_pdf
UnitConvert_ignore_result(ok) ==
    /\ unit_pc = "convert"
    /\ extracted_dir' = [extracted_dir EXCEPT ![pdf_file].exists = TRUE]
    /\ unit_pc' = IF ok THEN "pages" ELSE "exit0"
    /\ unit_i' = 0
    /\ UnitFrame

\* process_pdf lines 48-66: output directory, convert_from_path, pages directory
UnitConvert(ok) ==
    /\ unit_pc = "convert"
    /\ extracted_dir' = [extracted_dir EXCEPT ![pdf_file].exists = TRUE]
    /\ unit_pc' = IF ok THEN "pages" ELSE "exit1"
    /\ unit_i' = 0
    /\ UnitFrame

\* the page loop with the page's exception swallowed instead of re-raised
UnitPage_continue(ok) ==
    /\ unit_pc = "pages"
    /\ unit_i < num_pages[pdf_file]
    /\ extracted_dir' =
        IF ok THEN [extracted_dir EXCEPT ![pdf_file].pages = Max(@, unit_i + 1)]
        ELSE extracted_dir
    /\ unit_i' = unit_i + 1
    /\ unit_pc' = "pages"
    /\ UnitFrame

\* process_pdf lines 68-117: one iteration of the loop over the page images
UnitPage(ok) ==
    /\ unit_pc = "pages"
    /\ unit_i < num_pages[pdf_file]
    /\ IF ok
       THEN /\ extracted_dir' =
                [extracted_dir EXCEPT ![pdf_file].pages = Max(@, unit_i + 1)]
            /\ unit_i' = unit_i + 1
            /\ unit_pc' = "pages"
       ELSE \* "raise e" leaves process_pdf; line 140 exits 1
            /\ unit_pc' = "exit1"
            /\ UNCHANGED <<extracted_dir, unit_i>>
    /\ UnitFrame

\* process_pdf line 120: open(full_extracted.md, "w") creates or truncates
UnitOpenMarker ==
    /\ unit_pc = "pages"
    /\ unit_i = num_pages[pdf_file]
    /\ extracted_dir' = [extracted_dir EXCEPT ![pdf_file].full_extracted = "empty"]
    /\ unit_pc' = "write_marker"
    /\ UNCHANGED unit_i
    /\ UnitFrame

\* full_text is "" before the loop and gains a page header per page
full_text_written(n) == IF n = 0 THEN "empty" ELSE "full"

\* process_pdf line 121: f.write(full_text)
UnitWriteMarker ==
    /\ unit_pc = "write_marker"
    /\ extracted_dir' =
        [extracted_dir EXCEPT ![pdf_file].full_extracted = full_text_written(unit_i)]
    /\ unit_pc' = "return"
    /\ UNCHANGED unit_i
    /\ UnitFrame

\* process_pdf line 124 and ocr_engine.py lines 137-139: return True, exit 0
UnitReturn ==
    /\ unit_pc = "return"
    /\ unit_pc' = "exit0"
    /\ UNCHANGED <<extracted_dir, unit_i>>
    /\ UnitFrame

\* the engine aborts its host process (the fault the subprocess isolates)
UnitCrash ==
    /\ UnitRunning
    /\ unit_pc' = "aborted"
    /\ UNCHANGED <<extracted_dir, unit_i>>
    /\ UnitFrame


\* ------------------------------------------------------------------------
\* Step 3 of main.py: analysis, and the analyzers of src/analyzer.py
\* ------------------------------------------------------------------------

\* what the model backend does when asked for a report
BackendOutcomes == {"report", "empty", "raise"}

\* OpenAIAnalyzer.analyze: the request's exception becomes the returned text
OpenAIAnalyzer_analyze(b) ==
    [raised |-> FALSE,
     report |-> CASE b = "report" -> "report"
                  [] b = "empty" -> ""
                  [] b = "raise" -> "error_text"]

\* LocalVLMAnalyzer.analyze: nothing is caught
LocalVLMAnalyzer_analyze(b) ==
    [raised |-> (b = "raise"),
     report |-> IF b = "report" THEN "report" ELSE ""]

analyze(provider, b) ==
    IF provider = "online" THEN OpenAIAnalyzer_analyze(b) ELSE LocalVLMAnalyzer_analyze(b)

\* the state of a file after open(path, "w") and f.write(report)
written(report) == IF report = "" THEN "empty" ELSE report

\* "analyzer" of main.py is an object exactly when the analysis is not skipped
analyzer == ~args.skip_analysis

\* the gate deciding from this run's OCR outcome instead of the markers on disk
analysis_gate_remembered(i) ==
    /\ ~args.skip_analysis /\ analyzer
    /\ ocr_result[i] \notin {"nonzero", "timeout", "launch_error"}
    /\ ~analysis_marker_exists(i)

\* the gate without the test of the skip flag and of the analyzer object
analysis_gate_ignore_skip(i) ==
    /\ extraction_marker_exists(i)
    /\ ~analysis_marker_exists(i)

\* main.py lines 131-134: the gate of the analysis
analysis_gate(i) ==
    /\ ~args.skip_analysis /\ analyzer
    /\ extraction_marker_exists(i)
    /\ ~analysis_marker_exists(i)

\* the end of one iteration of the loop over pdf_files
NextIteration ==
    /\ k' = k + 1
    /\ pc' = IF k + 1 > Len(pdf_files) THEN "completed" ELSE "ocr"

Analysis ==
    /\ pc = "analysis"
    /\ IF analysis_gate(pdf_file)
       THEN pc' = "analyze" /\ UNCHANGED k
       ELSE NextIteration
    /\ UNCHANGED <<scraper_vars, robust_vars, pool_vars, content_vars, num_pages, disk, cmd, args, papers, pdf_files, unit_pc, unit_i, runs,
                   counters, history>>

\* main.py lines 137-143: PaperContent, analyzer.analyze, "if report:" and the write
Analyze(b) ==
    /\ pc = "analyze"
    /\ analyses' = analyses + 1
    /\ analysis_result' = [analysis_result EXCEPT ![pdf_file] = b]
    /\ LET r == analyze(args.provider, b) IN
        IF r.raised
        THEN \* nothing in main catches it: the traceback ends the run
             /\ pc' = "raised"
             /\ UNCHANGED <<extracted_dir, k>>
        ELSE /\ extracted_dir' =
                    IF r.report # ""
                    THEN [extracted_dir EXCEPT ![pdf_file].analysis_report =
                                                    written(r.report)]
                    ELSE extracted_dir
             /\ NextIteration
    /\ UNCHANGED <<scraper_vars, robust_vars, pool_vars, content_vars, num_pages, original_dir, cmd, args, papers, pdf_files, unit_pc, unit_i,
                   runs, fetches, launches, ocr_result, rerun, start_complete,
                   disk_at_start>>

\* analyzer.py main: the single-item analysis command on an extracted folder
AnalyzerMain(i, provider, b) ==
    /\ pc \in Terminal
    /\ runs < MaxRuns
    /\ extracted_dir[i].exists
    /\ runs' = runs + 1
    /\ cmd' = "analyzer_main"
    /\ pc' = "idle"
    /\ analyses' = 1
    /\ fetches' = 0
    /\ launches' = 0
    /\ ocr_result' = [j \in Items |-> "none"]
    /\ analysis_result' = [j \in Items |-> IF j = i THEN b ELSE "none"]
    /\ rerun' = FALSE
    /\ start_complete' = FALSE
    /\ disk_at_start' = NoSnapshot
    /\ LET r == analyze(provider, b) IN
        extracted_dir' =
            IF r.raised THEN extracted_dir
            ELSE [extracted_dir EXCEPT ![i].analysis_report = written(r.report)]
    /\ pdf_files' = <<>>
    /\ k' = 1
    /\ UNCHANGED <<scraper_vars, robust_vars, pool_vars, content_vars, num_pages, original_dir, args, papers, unit_pc, unit_i>>

\* ------------------------------------------------------------------------

Next ==
    \/ \E a \in ArgSet : StartPipeline(a)
    \/ \E p \in Items, o \in DownloadOutcomes : DownloadPdf(p, o)
    \/ \E ok \in BOOLEAN, listing \in listdir_orders : ListFiles(ok, listing)
    \/ \E ok \in BOOLEAN : Ocr(ok)
    \/ OcrReturn
    \/ OcrTimeout
    \/ \E ok \in BOOLEAN : UnitLoadModel(ok)
    \/ \E ok \in BOOLEAN : UnitConvert(ok)
    \/ \E ok \in BOOLEAN : UnitPage(ok)
    \/ UnitOpenMarker
    \/ UnitWriteMarker
    \/ UnitReturn
    \/ UnitCrash
    \/ Analysis
    \/ \E b \in BackendOutcomes : Analyze(b)
    \/ \E i \in Items, provider \in {"local", "online"}, b \in BackendOutcomes :
            AnalyzerMain(i, provider, b)

Spec == Init /\ [][Next]_vars

TypeOK ==
    /\ num_pages \in [Items -> 0..MaxPages]
    /\ original_dir \in [Items -> PdfStates]
    /\ \A i \in Items :
        /\ extracted_dir[i].exists \in BOOLEAN
        /\ extracted_dir[i].pages \in 0..num_pages[i]
        /\ extracted_dir[i].full_extracted \in MarkerStates
        /\ extracted_dir[i].analysis_report \in ReportStates
    /\ args \in ArgSet
    /\ runs \in 0..MaxRuns


\* ------------------------------------------------------------------------
\* scraper.py: the acquisition command
\* ------------------------------------------------------------------------

\* Retry(total=5, ...) of get_session
RetryTotal == 5
\* max_retries of scraper.py main
max_retries == 3
\* the most 503 answers a source gives to one request before it answers for good
MaxRefused == 6

\* session.get on a source that answers 503 n times and then answers for good:
\* the adapter retries a status of status_forcelist while retries are left, and
\* raises once the total is used up
session_get_no_retry(n) == IF n = 0 THEN "response" ELSE "retry_error"

session_get(n) == IF n <= RetryTotal THEN "response" ELSE "retry_error"

\* download_pdf against a source that answers 503 n times and then ends as o;
\* the exhausted retries raise an exception that only the outer handler catches
fetch_pdf(f, n, o) ==
    download_pdf(f, IF session_get(n) = "response" THEN o ELSE "other_error_nofile")

\* what served records of the call for p: nothing new when no request is sent
served_record(p, f, n, o) ==
    IF f = "big" THEN served
    ELSE [item |-> p, before |-> f, n503 |-> n, outcome |-> o]

\* the line f"{p.id} - {title}" of failed_downloads.txt
ledger_line(p) == [id |-> p, title |-> p]

\* the lines written for a batch, without its first item
ledger_lines_drop_first(batch) ==
    [j \in 1..(Len(batch) - 1) |-> ledger_line(batch[j + 1])]

\* scraper.py lines 157-160: one line per item of current_batch
ledger_lines(batch) == [j \in 1..Len(batch) |-> ledger_line(batch[j])]

ScraperFrame ==
    UNCHANGED <<robust_vars, pool_vars, content_vars, pipeline_vars, num_pages,
                extracted_dir>>

\* scraper.py lines 125-140
StartScraper ==
    /\ s_pc \in {"idle", "done"}
    /\ runs < MaxRuns
    /\ runs' = runs + 1
    /\ current_batch' = Catalog
    /\ retry_count' = 0
    /\ s_pc' = "loop"
    /\ queued' = {}
    /\ in_flight' = {}
    /\ failures' = <<>>
    /\ statuses' = [i \in Items |-> <<>>]
    /\ served' = NotServed
    /\ UNCHANGED <<original_dir, failed_downloads>>
    /\ ScraperFrame

\* scraper.py line 142 and process_downloads lines 105-112
LoopTest ==
    /\ s_pc = "loop"
    /\ IF current_batch # <<>> /\ retry_count < max_retries
       THEN /\ s_pc' = "round"
            /\ queued' = SeqRange(current_batch)
            /\ failures' = <<>>
       ELSE /\ s_pc' = "after_loop"
            /\ UNCHANGED <<queued, failures>>
    /\ UNCHANGED <<runs, original_dir, current_batch, retry_count, in_flight, statuses,
                   served, failed_downloads>>
    /\ ScraperFrame

\* a worker of the pool takes a submitted call
WorkerStart(p) ==
    /\ s_pc = "round"
    /\ p \in queued
    /\ Cardinality(in_flight) < max_workers
    /\ queued' = queued \ {p}
    /\ in_flight' = in_flight \cup {p}
    /\ UNCHANGED <<runs, original_dir, s_pc, current_batch, retry_count, failures,
                   statuses, served, failed_downloads>>
    /\ ScraperFrame

\* process_downloads: failures.append under "if result['status'] == 'error'"
collect(fs, p, status) == IF status = "error" THEN Append(fs, p) ELSE fs

\* download_pdf returns in a worker and as_completed hands over its result
\* (process_downloads lines 114-121)
WorkerFinish(p, n, o) ==
    /\ s_pc = "round"
    /\ p \in in_flight
    /\ LET r == fetch_pdf(original_dir[p], n, o) IN
        /\ original_dir' = [original_dir EXCEPT ![p] = r.file]
        /\ statuses' = [statuses EXCEPT ![p] = Append(@, r.status)]
        /\ failures' = collect(failures, p, r.status)
    /\ served' = served_record(p, original_dir[p], n, o)
    /\ in_flight' = in_flight \ {p}
    /\ UNCHANGED <<runs, s_pc, current_batch, retry_count, queued, failed_downloads>>
    /\ ScraperFrame

\* the batch of the next round retries everything again
next_batch_all(batch, failed) == batch

\* scraper.py line 152: current_batch = failed_papers
next_batch(batch, failed) == failed

\* scraper.py lines 146-153: process_downloads returned
RoundEnd ==
    /\ s_pc = "round"
    /\ queued = {} /\ in_flight = {}
    /\ IF failures = <<>>
       THEN \* break
            /\ s_pc' = "after_loop"
            /\ UNCHANGED <<current_batch, retry_count>>
       ELSE /\ current_batch' = next_batch(current_batch, failures)
            /\ retry_count' = retry_count + 1
            /\ s_pc' = "loop"
    /\ UNCHANGED <<runs, original_dir, queued, in_flight, failures, statuses, served,
                   failed_downloads>>
    /\ ScraperFrame

\* scraper.py lines 155-161
WriteLedger ==
    /\ s_pc = "after_loop"
    /\ failed_downloads' =
        IF current_batch # <<>>
        THEN [written_in |-> runs, lines |-> ledger_lines(current_batch)]
        ELSE failed_downloads
    /\ s_pc' = "done"
    /\ UNCHANGED <<runs, original_dir, current_batch, retry_count, queued, in_flight,
                   failures, statuses, served>>
    /\ ScraperFrame

NextScraper ==
    \/ StartScraper
    \/ LoopTest
    \/ \E p \in Items : WorkerStart(p)
    \/ \E p \in Items, n \in 0..MaxRefused, o \in DownloadOutcomes : WorkerFinish(p, n, o)
    \/ RoundEnd
    \/ WriteLedger

\* the documents' page counts play no part in the acquisition
InitScraper == Init /\ num_pages = [i \in Items |-> 1]

\* every started thread and every step of main runs to its end
SpecScraper == InitScraper /\ [][NextScraper]_vars /\ WF_vars(NextScraper)

\* ------------------------------------------------------------------------
\* run_ocr_robust.py: the supervisor, and the batch mode of ocr_engine.py it runs
\* ------------------------------------------------------------------------

MaxLaunches == 3

RobustFrame == UNCHANGED <<scraper_vars, pool_vars, content_vars, pipeline_vars, num_pages, original_dir, runs>>

EngineRunning ==
    engine_pc \in {"start", "init_engine", "loop", "convert", "pages", "write_marker"}

\* run_ocr_robust.py lines 21-26: the script is started from the project root
RunOcr ==
    /\ sup_pc = "idle"
    /\ pc \in Terminal /\ s_pc \in {"idle", "done"}
    /\ sup_pc' = "top"
    /\ UNCHANGED <<engine_pc, files, file_k, page_i, exit_code, sup_launches, extracted_dir>>
    /\ RobustFrame

\* run_ocr lines 9-11: the head of "while True" and subprocess.Popen(cmd)
SupLaunch ==
    /\ sup_pc = "top"
    /\ sup_launches < MaxLaunches
    /\ sup_launches' = sup_launches + 1
    /\ sup_pc' = "wait"
    /\ engine_pc' = "start"
    /\ exit_code' = "none"
    /\ UNCHANGED <<files, file_k, page_i, extracted_dir>>
    /\ RobustFrame

\* the supervisor stopping after the first launch whatever the exit code
SupWait_stop_on_any ==
    /\ sup_pc = "wait"
    /\ engine_pc = "exited"
    /\ engine_pc' = "none"
    /\ sup_pc' = "finished"
    /\ UNCHANGED <<files, file_k, page_i, exit_code, sup_launches, extracted_dir>>
    /\ RobustFrame

\* run_ocr lines 12-17: process.wait() and the test of the exit code
SupWait ==
    /\ sup_pc = "wait"
    /\ engine_pc = "exited"
    /\ engine_pc' = "none"
    /\ sup_pc' = IF exit_code = "exit0" THEN "finished" ELSE "sleep"
    /\ UNCHANGED <<files, file_k, page_i, exit_code, sup_launches, extracted_dir>>
    /\ RobustFrame

\* run_ocr line 19: time.sleep(5), then the loop starts over
SupSleep ==
    /\ sup_pc = "sleep"
    /\ sup_pc' = "top"
    /\ UNCHANGED <<engine_pc, files, file_k, page_i, exit_code, sup_launches, extracted_dir>>
    /\ RobustFrame

\* the engine process ends with the given exit code
engine_exit(code) ==
    /\ engine_pc' = "exited"
    /\ exit_code' = code

\* ocr_engine.py lines 151-177: the sorted listing; no file ends the run with 0
EngineListFiles ==
    /\ engine_pc = "start"
    /\ files' = listdir_pdf
    /\ file_k' = 1
    /\ page_i' = 0
    /\ IF files' = <<>>
       THEN engine_exit("exit0")
       ELSE engine_pc' = "init_engine" /\ UNCHANGED exit_code
    /\ UNCHANGED <<sup_pc, sup_launches, extracted_dir>>
    /\ RobustFrame

\* ocr_engine.py line 159: OCREngine() outside any try; a load failure is an
\* uncaught exception and the interpreter exits with 1
EngineInit(ok) ==
    /\ engine_pc = "init_engine"
    /\ IF ok
       THEN engine_pc' = "loop" /\ UNCHANGED exit_code
       ELSE engine_exit("exit1")
    /\ UNCHANGED <<sup_pc, sup_launches, files, file_k, page_i, extracted_dir>>
    /\ RobustFrame

\* ocr_engine.py lines 161-167: the head of the loop over files and the skip test
EngineLoop ==
    /\ engine_pc = "loop"
    /\ IF file_k > Len(files)
       THEN engine_exit("exit0") /\ UNCHANGED file_k
       ELSE /\ UNCHANGED exit_code
            /\ IF batch_skip(files[file_k])
               THEN engine_pc' = "loop" /\ file_k' = file_k + 1
               ELSE engine_pc' = "convert" /\ UNCHANGED file_k
    /\ UNCHANGED <<sup_pc, sup_launches, files, page_i, extracted_dir>>
    /\ RobustFrame

\* process_pdf lines 48-66 under line 171: a False result is dropped
EngineConvert(ok) ==
    /\ engine_pc = "convert"
    /\ extracted_dir' = [extracted_dir EXCEPT ![files[file_k]].exists = TRUE]
    /\ page_i' = 0
    /\ IF ok
       THEN engine_pc' = "pages" /\ UNCHANGED file_k
       ELSE engine_pc' = "loop" /\ file_k' = file_k + 1
    /\ UNCHANGED <<sup_pc, sup_launches, files, exit_code>>
    /\ RobustFrame

\* process_pdf lines 68-117 under lines 170-174: a page's exception is caught by
\* the batch loop, which continues with the next file
EnginePage(ok) ==
    /\ engine_pc = "pages"
    /\ page_i < num_pages[files[file_k]]
    /\ IF ok
       THEN /\ extracted_dir' =
                [extracted_dir EXCEPT ![files[file_k]].pages = Max(@, page_i + 1)]
            /\ page_i' = page_i + 1
            /\ engine_pc' = "pages"
            /\ UNCHANGED file_k
       ELSE /\ engine_pc' = "loop"
            /\ file_k' = file_k + 1
            /\ UNCHANGED <<extracted_dir, page_i>>
    /\ UNCHANGED <<sup_pc, sup_launches, files, exit_code>>
    /\ RobustFrame

\* process_pdf line 120 in the batch process
EngineOpenMarker ==
    /\ engine_pc = "pages"
    /\ page_i = num_pages[files[file_k]]
    /\ extracted_dir' = [extracted_dir EXCEPT ![files[file_k]].full_extracted = "empty"]
    /\ engine_pc' = "write_marker"
    /\ UNCHANGED <<sup_pc, sup_launches, files, file_k, page_i, exit_code>>
    /\ RobustFrame

\* process_pdf lines 121-124 in the batch process, then the next file
EngineWriteMarker ==
    /\ engine_pc = "write_marker"
    /\ extracted_dir' =
        [extracted_dir EXCEPT ![files[file_k]].full_extracted = full_text_written(page_i)]
    /\ engine_pc' = "loop"
    /\ file_k' = file_k + 1
    /\ UNCHANGED <<sup_pc, sup_launches, files, page_i, exit_code>>
    /\ RobustFrame

\* the engine aborts its process (the crash the supervisor restarts after)
EngineAbort ==
    /\ EngineRunning
    /\ engine_exit("aborted")
    /\ UNCHANGED <<sup_pc, sup_launches, files, file_k, page_i, extracted_dir>>
    /\ RobustFrame

NextRobust ==
    \/ RunOcr
    \/ SupLaunch
    \/ SupWait
    \/ SupSleep
    \/ EngineListFiles
    \/ \E ok \in BOOLEAN : EngineInit(ok)
    \/ EngineLoop
    \/ \E ok \in BOOLEAN : EngineConvert(ok)
    \/ \E ok \in BOOLEAN : EnginePage(ok)
    \/ EngineOpenMarker
    \/ EngineWriteMarker
    \/ EngineAbort

\* the payloads an earlier acquisition left in original_papers
InitRobust ==
    /\ InitCommands
    /\ NoPages
    /\ original_dir \in [Items -> {"absent", "big"}]

\* the supervisor and the engine process both keep running
SpecRobust == InitRobust /\ [][NextRobust]_vars /\ WF_vars(NextRobust)

\* ------------------------------------------------------------------------
\* The pipeline at the granularity of its file writes, with the process killed
\* ------------------------------------------------------------------------

KillFrame == UNCHANGED <<scraper_vars, robust_vars, pool_vars, content_vars, num_pages, original_dir, cmd, args,
                         papers, pdf_files, runs, unit_pc, unit_i, fetches, launches,
                         ocr_result, rerun, start_complete, disk_at_start>>

\* process_pdf line 121: the buffered f.write(full_text) has reached the disk in
\* part; full_text is not empty when there is at least one page
UnitFlushPart ==
    /\ unit_pc = "write_marker"
    /\ unit_i >= 1
    /\ extracted_dir[pdf_file].full_extracted = "empty"
    /\ extracted_dir' = [extracted_dir EXCEPT ![pdf_file].full_extracted = "partial"]
    /\ UNCHANGED <<unit_pc, unit_i>>
    /\ UnitFrame

\* main.py lines 137-140: PaperContent, analyzer.analyze and "if report:"
AnalyzeCall(b) ==
    /\ pc = "analyze"
    /\ analyses' = analyses + 1
    /\ analysis_result' = [analysis_result EXCEPT ![pdf_file] = b]
    /\ LET r == analyze(args.provider, b) IN
        IF r.raised
        THEN pc' = "raised" /\ UNCHANGED k
        ELSE IF r.report # ""
             THEN pc' = "open_report" /\ UNCHANGED k
             ELSE NextIteration
    /\ UNCHANGED extracted_dir
    /\ KillFrame

\* the report analyzer.analyze returned in this iteration
report == analyze(args.provider, analysis_result[pdf_file]).report

\* main.py line 141: open(analysis_report.md, "w") creates or truncates the file
OpenReport ==
    /\ pc = "open_report"
    /\ extracted_dir' = [extracted_dir EXCEPT ![pdf_file].analysis_report = "empty"]
    /\ pc' = "write_report"
    /\ UNCHANGED <<k, analyses, analysis_result>>
    /\ KillFrame

\* main.py line 142: the buffered f.write(report) has reached the disk in part
FlushReportPart ==
    /\ pc = "write_report"
    /\ extracted_dir[pdf_file].analysis_report = "empty"
    /\ extracted_dir' = [extracted_dir EXCEPT ![pdf_file].analysis_report = "partial"]
    /\ UNCHANGED <<pc, k, analyses, analysis_result>>
    /\ KillFrame

\* main.py lines 142-143: the end of the with block flushes the rest and closes
CloseReport ==
    /\ pc = "write_report"
    /\ extracted_dir' = [extracted_dir EXCEPT ![pdf_file].analysis_report = written(report)]
    /\ NextIteration
    /\ UNCHANGED <<analyses, analysis_result>>
    /\ KillFrame

\* the pipeline process and its extraction unit are killed (SIGKILL, power loss):
\* no handler runs, the files stay as they are
Kill ==
    /\ cmd = "pipeline"
    /\ pc \notin Terminal
    /\ pc' = "killed"
    /\ unit_pc' = "none"
    /\ unit_i' = 0
    /\ UNCHANGED <<scraper_vars, robust_vars, pool_vars, content_vars, num_pages, disk, cmd, args, papers, pdf_files,
                   k, runs, counters, history>>

NextKill ==
    \/ \E a \in ArgSet : a.skip_download /\ StartPipeline(a)
    \/ \E ok \in BOOLEAN, listing \in listdir_orders : ListFiles(ok, listing)
    \/ \E ok \in BOOLEAN : Ocr(ok)
    \/ OcrReturn
    \/ OcrTimeout
    \/ \E ok \in BOOLEAN : UnitLoadModel(ok)
    \/ \E ok \in BOOLEAN : UnitConvert(ok)
    \/ \E ok \in BOOLEAN : UnitPage(ok)
    \/ UnitOpenMarker
    \/ UnitFlushPart
    \/ UnitWriteMarker
    \/ UnitReturn
    \/ UnitCrash
    \/ Analysis
    \/ \E b \in BackendOutcomes : AnalyzeCall(b)
    \/ OpenReport
    \/ FlushReportPart
    \/ CloseReport
    \/ Kill

\* the payloads are in original_papers and the runs skip the download
InitKill ==
    /\ InitCommands
    /\ NoPages
    /\ original_dir = [i \in Items |-> "big"]

SpecKill == InitKill /\ [][NextKill]_vars

\* ------------------------------------------------------------------------
\* process_downloads: one round on a batch larger than the pool
\* ------------------------------------------------------------------------

PoolFrame ==
    UNCHANGED <<scraper_vars, robust_vars, content_vars, pipeline_vars, num_pages,
                original_dir, extracted_dir, runs>>

PoolRunning == {p \in PoolPapers : futures[p] = "running"}

\* process_downloads lines 105-112: failures = [] and a submit per paper
PoolSubmit ==
    /\ pool_pc = "idle"
    /\ pool_pc' = "as_completed"
    /\ futures' = [p \in PoolPapers |-> "pending"]
    /\ pool_failures' = <<>>
    /\ PoolFrame

\* a worker takes a pending call whatever the pool's size
PoolWorkerStart_unbounded(p) ==
    /\ pool_pc = "as_completed"
    /\ futures[p] = "pending"
    /\ futures' = [futures EXCEPT ![p] = "running"]
    /\ UNCHANGED <<pool_pc, pool_failures>>
    /\ PoolFrame

\* ThreadPoolExecutor: an idle worker of the max_workers takes a pending call
PoolWorkerStart(p) ==
    /\ pool_pc = "as_completed"
    /\ futures[p] = "pending"
    /\ Cardinality(PoolRunning) < max_workers
    /\ futures' = [futures EXCEPT ![p] = "running"]
    /\ UNCHANGED <<pool_pc, pool_failures>>
    /\ PoolFrame

\* process_downloads lines 114-121: download_pdf, called on a file in state f with
\* the request ending as o, returns and as_completed hands over its result
PoolWorkerFinish(p, f, o) ==
    /\ pool_pc = "as_completed"
    /\ futures[p] = "running"
    /\ LET status == download_pdf(f, o).status IN
        /\ futures' = [futures EXCEPT ![p] = status]
        /\ pool_failures' = collect(pool_failures, p, status)
    /\ UNCHANGED pool_pc
    /\ PoolFrame

\* process_downloads lines 114-123: as_completed is exhausted, return failures
PoolReturn ==
    /\ pool_pc = "as_completed"
    /\ \A p \in PoolPapers : futures[p] \notin {"pending", "running"}
    /\ pool_pc' = "returned"
    /\ UNCHANGED <<futures, pool_failures>>
    /\ PoolFrame

NextPool ==
    \/ PoolSubmit
    \/ \E p \in PoolPapers : PoolWorkerStart(p)
    \/ \E p \in PoolPapers, f \in PdfStates, o \in DownloadOutcomes :
            PoolWorkerFinish(p, f, o)
    \/ PoolReturn

\* every worker thread and the loop over as_completed keep running
SpecPool == InitScraper /\ [][NextPool]_vars /\ WF_vars(NextPool)

\* ------------------------------------------------------------------------
\* analyzer.py: PaperContent._load_pages
\* ------------------------------------------------------------------------

RECURSIVE Digits(_)
\* str(n): the decimal characters of n, as in the folder name f"page_{i}"
Digits(n) == IF n < 10 THEN <<n>> ELSE Append(Digits(n \div 10), n % 10)

RECURSIVE ParseInt(_)
\* int(x.split('_')[1]) on the characters after "page_"
ParseInt(ds) ==
    IF ds = <<>> THEN 0
    ELSE ParseInt(SubSeq(ds, 1, Len(ds) - 1)) * 10 + ds[Len(ds)]

RECURSIVE LexLess(_, _)
\* a < b for strings: the first differing character decides, a prefix is smaller
LexLess(a, b) ==
    IF b = <<>> THEN FALSE
    ELSE IF a = <<>> THEN TRUE
    ELSE IF a[1] # b[1] THEN a[1] < b[1]
    ELSE LexLess(Tail(a), Tail(b))

RECURSIVE sorted(_)
\* sorted(names): ascending in string order
sorted(S) ==
    IF S = {} THEN <<>>
    ELSE LET m == CHOOSE x \in S : \A y \in S \ {x} : LexLess(x, y)
         IN <<m>> \o sorted(S \ {m})

RECURSIVE sorted_by_int(_)
\* sorted(names, key=lambda x: int(x.split('_')[1]))
sorted_by_int(S) ==
    IF S = {} THEN <<>>
    ELSE LET m == CHOOSE x \in S : \A y \in S : ParseInt(x) <= ParseInt(y)
         IN <<m>> \o sorted_by_int(S \ {m})

\* the entries of pages/ that start with "page_" and are directories
listdir_pages == {Digits(n) : n \in {m \in PageNums : page_dirs[m].exists}}

\* the folders sorted as plain strings, without the key
sorted_page_folders_as_strings == sorted(listdir_pages)

\* _load_pages lines 33-34
sorted_page_folders == sorted_by_int(listdir_pages)

original_jpg == [kind |-> "original", name |-> <<>>]

\* _load_pages lines 51-58: the files of images/ with an image suffix, sorted
crops_to_load(d) ==
    IF d.images_dir
    THEN LET names == sorted(d.crops)
         IN [j \in 1..Len(names) |-> [kind |-> "crop", name |-> names[j]]]
    ELSE <<>>

\* _load_pages lines 51-64: the crops, or original.jpg when there is no crop
images_to_load(d) ==
    IF crops_to_load(d) # <<>> THEN crops_to_load(d)
    ELSE IF d.original THEN <<original_jpg>>
    ELSE <<>>

ContentFrame ==
    UNCHANGED <<scraper_vars, robust_vars, pool_vars, pipeline_vars, num_pages,
                original_dir, extracted_dir, runs, page_dirs>>

\* PaperContent.__init__ and _load_pages lines 27-34; without a pages directory
\* the list of folders is empty and pages stays []
LoadPagesStart ==
    /\ content_pc = "idle"
    /\ pages' = <<>>
    /\ page_folders' = sorted_page_folders
    /\ content_pc' = "loop"
    /\ ContentFrame

\* _load_pages lines 36-70: one iteration of "for folder in page_folders"
LoadPage ==
    /\ content_pc = "loop"
    /\ Len(pages) < Len(page_folders)
    /\ LET folder == page_folders[Len(pages) + 1] IN
        pages' = Append(pages, [page_num |-> folder,
                                images |-> images_to_load(page_dirs[ParseInt(folder)])])
    /\ UNCHANGED <<content_pc, page_folders>>
    /\ ContentFrame

\* the loop is exhausted and __init__ returns
LoadPagesReturn ==
    /\ content_pc = "loop"
    /\ Len(pages) = Len(page_folders)
    /\ content_pc' = "loaded"
    /\ UNCHANGED <<pages, page_folders>>
    /\ ContentFrame

NextContent == LoadPagesStart \/ LoadPage \/ LoadPagesReturn

\* any content of pages/: images/ holds files only when it exists
InitContent ==
    /\ InitCommands
    /\ num_pages = [i \in Items |-> 1]
    /\ original_dir = [i \in Items |-> "absent"]
    /\ page_dirs \in [PageNums -> PageDirStates]
    /\ \A n \in PageNums :
        /\ ~page_dirs[n].exists => page_dirs[n] = NoPageDir
        /\ ~page_dirs[n].images_dir => (page_dirs[n].crops = {} /\ ~page_dirs[n].other_file)

SpecContent == InitContent /\ [][NextContent]_vars

\* ------------------------------------------------------------------------
\* Properties
\* ------------------------------------------------------------------------

OcrFailures == {"nonzero", "timeout", "launch_error"}

NothingDone ==
    /\ fetches = 0
    /\ launches = 0
    /\ analyses = 0
    /\ disk = disk_at_start

C2_CrashIsolation ==
    (cmd = "pipeline" /\ pc = "completed") =>
        \A i \in Items :
            /\ ocr_result[i] = "exit0" => extracted_dir[i].full_extracted = "full"
            /\ ocr_result[i] = "nonzero" => ~extracted_dir[i].exists

\* C3: full_extracted.md is present for an item only if its output directory holds
\* the processed output of every page of the item.
C3_MarkerOnlyAfterAllPages ==
    \A i \in Items :
        extracted_dir[i].full_extracted # "absent" =>
            /\ extracted_dir[i].exists
            /\ extracted_dir[i].pages = num_pages[i]

C3_Witness ==
    \E i \in Items :
        /\ num_pages[i] >= 2
        /\ extracted_dir[i].full_extracted = "full"
        /\ extracted_dir[i].pages = num_pages[i]
        /\ ocr_result[i] = "exit0"

\* C4: when the extraction unit of an item has exited with status zero, the item's
\* full_extracted.md exists and is non-empty.
C4_ExitZeroMarkerNonEmpty ==
    (pc = "ocr_wait" /\ unit_pc = "exit0") =>
        extracted_dir[pdf_file].full_extracted = "full"

\* C5: an item whose extraction timed out or failed at launch is left as an item
\* whose unit exited non-zero is: its output directory is gone, the analyzer is not
\* called for it, and the directory is gone before a later item's unit runs.
C5_TimeoutEquivalence ==
    \A i \in Items :
        ocr_result[i] \in OcrFailures =>
            /\ extracted_dir[i] = NoDir
            /\ pc \in {"ocr", "ocr_wait", "analysis", "analyze", "completed", "raised"}
            /\ pc = "analyze" => pdf_file # i
            /\ pc = "ocr_wait" => pdf_file # i

C5_Witness ==
    \E i, j \in Items :
        /\ ocr_result[i] = "timeout"
        /\ ocr_result[j] = "launch_error"
        /\ pc = "completed"

\* C6: the pipeline calls the analyzer for an item only when, on disk at that
\* moment, the item's full_extracted.md exists and its analysis_report.md does not.
C6_AnalysisGate ==
    pc = "analyze" =>
        /\ extracted_dir[pdf_file].full_extracted # "absent"
        /\ extracted_dir[pdf_file].analysis_report = "absent"

C6_Witness ==
    /\ pc = "analyze"
    /\ ocr_result[pdf_file] = "none"
    /\ ~args.skip_ocr

\* C7: each completion check (the pipeline's extraction gate, both marker tests of
\* its analysis gate, the batch engine's skip check) holds exactly when the marker
\* exists with non-zero size.
C7_ChecksRequireNonEmpty ==
    \A i \in Items :
        /\ already_extracted(i) <=> extracted_dir[i].full_extracted = "full"
        /\ extraction_marker_exists(i) <=> extracted_dir[i].full_extracted = "full"
        /\ analysis_marker_exists(i) <=>
                extracted_dir[i].analysis_report \notin {"absent", "empty"}
        /\ batch_skip(i) <=> extracted_dir[i].full_extracted = "full"

\* C8: in a pipeline run, an item whose analyzer backend raised or produced an
\* empty report has no analysis_report.md.
C8_NoMarkerOnAnalyzerFailure ==
    cmd = "pipeline" =>
        \A i \in Items :
            analysis_result[i] \in {"empty", "raise"} =>
                extracted_dir[i].analysis_report = "absent"

\* C9: after the analyzer backend raised for an item, the pipeline loop is still
\* running or has completed: the exception did not end the run.
C9_AnalyzerExceptionContained ==
    (cmd = "pipeline" /\ \E i \in Items : analysis_result[i] = "raise") =>
        pc \in {"ocr", "ocr_wait", "analysis", "analyze", "completed"}

\* C10: a step in which analyze returns an empty report, in the pipeline or in the
\* single-item analysis command, leaves every analysis_report.md as it was.
C10_EmptyReportWritesNothing ==
    [][(Analyze("empty") \/
        \E i \in Items, provider \in {"local", "online"} :
            AnalyzerMain(i, provider, "empty"))
       => UNCHANGED extracted_dir]_vars


\* ---- the acquisition command ----

LastStatus(p) == statuses[p][Len(statuses[p])]

\* the items whose download_pdf call of round r returned error
ErroredInRound(r) == {p \in Items : Len(statuses[p]) >= r /\ statuses[p][r] = "error"}

LedgerIds == {failed_downloads.lines[j].id : j \in DOMAIN failed_downloads.lines}

\* C13: the ledger a finished acquisition run wrote lists only items whose last
\* download_pdf call returned error.
C13_LedgerOnlyStillFailing ==
    (s_pc = "done" /\ failed_downloads.written_in = runs) =>
        \A p \in LedgerIds : LastStatus(p) = "error"

\* C14: after a finished acquisition run, an item whose download_pdf call returned
\* error in each of the max_retries rounds is on exactly one line of the ledger the
\* run wrote, and the line carries its id and its title.
C14_ExhaustedItemOnceInLedger ==
    s_pc = "done" =>
        \A p \in Items :
            (Len(statuses[p]) = max_retries
                /\ \A j \in 1..max_retries : statuses[p][j] = "error") =>
            /\ failed_downloads.written_in = runs
            /\ Cardinality({j \in DOMAIN failed_downloads.lines :
                                failed_downloads.lines[j].id = p}) = 1
            /\ \E j \in DOMAIN failed_downloads.lines :
                    failed_downloads.lines[j] = ledger_line(p)

C14_Witness ==
    /\ s_pc = "done"
    /\ \E p, q \in Items :
        /\ statuses[p] = <<"error", "error", "error">>
        /\ statuses[q] = <<"success">>

C15_RoundsInv ==
    /\ retry_count <= max_retries
    /\ \A p \in Items :
        /\ Len(statuses[p]) <= max_retries
        /\ \A j \in 1..(Len(statuses[p]) - 1) : statuses[p][j] = "error"
    /\ s_pc = "round" =>
        /\ retry_count < max_retries
        /\ queued \cup in_flight \subseteq SeqRange(current_batch)
        /\ retry_count > 0 => SeqRange(current_batch) = ErroredInRound(retry_count)
        /\ \A p \in Items : Len(statuses[p]) <= retry_count + 1
    /\ s_pc \in {"after_loop", "done"} =>
        (failures = <<>> \/ retry_count = max_retries)

\* C15: the retry loop runs at most max_retries rounds; a round after the first
\* fetches exactly the items whose call returned error in the round before, so
\* only errors are fetched again; the loop ends after a round without failures or
\* after the last round, and it always ends.
C15_RetryLoopBoundedAndTerminates ==
    /\ []C15_RoundsInv
    /\ (s_pc = "loop") ~> (s_pc = "done")

C15_Witness ==
    /\ s_pc = "round"
    /\ retry_count = max_retries - 1
    /\ Len(current_batch) < NumItems
    /\ in_flight # {}

InterruptedAfterBytes == {"network_error", "other_error_small", "other_error_big"}

\* C16: after download_pdf returned from a fetch that an error interrupted once
\* bytes were written, the item's file is absent or at most 1024 bytes.
C16_NoLargePartialFile ==
    (served.n503 <= RetryTotal /\ served.outcome \in InterruptedAfterBytes) =>
        original_dir[served.item] \in {"absent", "small"}

\* C17: a request whose source answers 503 between one and RetryTotal times and
\* then 200 with the whole body makes download_pdf return success: the item's last
\* outcome is success and no error, its file is on disk, and the item is on no
\* failures list.
C17_RetriedRequestSucceeds ==
    (/\ served.n503 \in 1..RetryTotal
     /\ served.outcome \in {"ok_big", "ok_small"}) =>
        /\ LastStatus(served.item) = "success"
        /\ original_dir[served.item] # "absent"
        /\ \A j \in DOMAIN failures : failures[j] # served.item

C17_Witness ==
    /\ served.n503 = RetryTotal
    /\ served.outcome = "ok_big"
    /\ statuses[served.item] = <<"success">>
    /\ original_dir[served.item] = "big"
    /\ s_pc = "done"


\* ---- the pipeline with both skip flags ----

SkipBothRunning ==
    /\ cmd = "pipeline"
    /\ args.skip_ocr /\ args.skip_analysis
    /\ pc \notin Terminal

\* C18: while a pipeline run with --skip-ocr and --skip-analysis is under way, no
\* step launches an extraction unit, no analyzer object exists and none is called,
\* and no step creates, modifies or deletes anything under the extraction
\* directories, the completion markers included.
C18_SkipBothTouchesNothing ==
    [][SkipBothRunning =>
        /\ ~analyzer
        /\ launches' = 0 /\ launches = 0
        /\ analyses' = 0 /\ analyses = 0
        /\ unit_pc' = "none"
        /\ extracted_dir' = extracted_dir]_vars

C18_Witness ==
    /\ cmd = "pipeline"
    /\ args.skip_ocr /\ args.skip_analysis
    /\ pc = "completed"
    /\ \E i, j \in SeqRange(pdf_files) :
        /\ ~extraction_marker_exists(i)
        /\ extraction_marker_exists(j) /\ ~analysis_marker_exists(j)


\* ---- the single-item extraction command ----

MarkersUnchanged ==
    \A i \in Items : extracted_dir'[i].full_extracted = extracted_dir[i].full_extracted

UnitFailureStep == UnitLoadModel(FALSE) \/ UnitConvert(FALSE) \/ UnitPage(FALSE)

\* C20: a step of the single-item extraction command in which the model load
\* fails, the page conversion fails or a page raises ends the command with exit
\* code 1 and writes no full_extracted.md; no step before that exit wrote one; the
\* command reaches exit code 0 only from the return of process_pdf with True, after
\* every page was processed and the marker was written.
C20_ExitCodes ==
    [][/\ UnitFailureStep => (unit_pc' = "exit1" /\ MarkersUnchanged)
       /\ unit_pc' \in {"load_model", "convert", "pages", "exit1"} => MarkersUnchanged
       /\ (unit_pc' = "exit1" /\ unit_pc # "exit1") => UnitFailureStep
       /\ (unit_pc' = "exit0" /\ unit_pc # "exit0") =>
            /\ unit_pc = "return"
            /\ unit_i = num_pages[pdf_file]
            /\ extracted_dir[pdf_file].pages = num_pages[pdf_file]
            /\ extracted_dir[pdf_file].full_extracted = full_text_written(num_pages[pdf_file])
      ]_vars

C20_Witness ==
    /\ unit_pc = "exit1"
    /\ pc = "ocr_wait"
    /\ extracted_dir[pdf_file].exists
    /\ extracted_dir[pdf_file].pages = 1
    /\ extracted_dir[pdf_file].full_extracted = "absent"


\* ---- the supervisor ----

\* C19: the supervisor is finished only when the last engine exit code is zero;
\* from the wait it goes on to the delay and a fresh launch exactly when the exit
\* code is not zero; once finished it launches nothing more; and every delay is
\* followed by a launch (while launches are left within MaxLaunches).
C19_SupervisorRestarts ==
    /\ [](sup_pc = "finished" => exit_code = "exit0")
    /\ [](sup_pc = "sleep" => exit_code \in {"exit1", "aborted"})
    /\ [][/\ (sup_pc = "wait" /\ sup_pc' # "wait") =>
                (sup_pc' = IF exit_code = "exit0" THEN "finished" ELSE "sleep")
          /\ sup_pc = "finished" =>
                (sup_pc' = "finished" /\ sup_launches' = sup_launches
                    /\ engine_pc' = engine_pc)]_vars
    /\ (sup_pc = "sleep" /\ sup_launches < MaxLaunches) ~> (sup_pc = "wait")

C19_Witness ==
    /\ sup_pc = "finished"
    /\ sup_launches = MaxLaunches
    /\ exit_code = "exit0"
    /\ \E i \in Items : extracted_dir[i].full_extracted = "full"


\* ---- writes of the markers and a killed run ----

\* C11: a pipeline process killed at any point leaves no analysis_report.md that
\* holds only a part of the report.
C11_NoPartialReportAfterCrash ==
    pc = "killed" =>
        \A i \in Items : extracted_dir[i].analysis_report # "partial"

\* C12: when a pipeline run ends uninterrupted, whatever was killed before it, no
\* item has a full_extracted.md or an analysis_report.md with only part of its
\* content behind it.
C12_ResumedRunHasWholeMarkers ==
    pc = "completed" =>
        \A i \in SeqRange(pdf_files) :
            /\ extracted_dir[i].full_extracted # "partial"
            /\ extracted_dir[i].analysis_report # "partial"


\* ---- the stages and each other's output ----

ReportsUnchanged ==
    \A i \in Items : extracted_dir'[i].analysis_report = extracted_dir[i].analysis_report

\* C21: no step of the extraction stage of a pipeline run (the gate, the unit, the
\* cleanup after a non-zero exit, a timeout or a launch error) deletes or changes
\* the analysis_report.md of any item.
C21_ExtractionKeepsReports ==
    [][(pc \in {"ocr", "ocr_wait"}) => ReportsUnchanged]_vars


\* ---- one extraction unit at a time, one launch per item ----

UnitExited == unit_pc \in {"exit0", "exit1", "aborted"}

\* C22: an extraction unit exists only while main waits in subprocess.run for it,
\* and a unit is launched only when no unit is running or waiting to be reaped:
\* the unit before it has exited and was reaped, or was terminated by the timeout.
C22_OneUnitAtATime ==
    /\ []((UnitRunning \/ UnitExited) => (cmd = "pipeline" /\ pc = "ocr_wait"))
    /\ [][(launches' = launches + 1) => (pc = "ocr" /\ unit_pc = "none")]_vars

C22_Witness ==
    /\ pc = "ocr_wait"
    /\ UnitRunning
    /\ k = 2
    /\ launches = 2
    /\ ocr_result[pdf_files[1]] = "timeout"

\* C23: within a pipeline run a unit is launched only for an item that had no
\* launch in this run; an item whose extraction failed in this run is never handed
\* to the analyzer in this run and keeps no output directory, and the extraction
\* gate of a run without --skip-ocr launches a unit for every item it reaches
\* without an output directory.
C23_OneLaunchPerItemRetryNextRun ==
    /\ [](cmd = "pipeline" =>
            \A i \in Items :
                ocr_result[i] \in OcrFailures =>
                    /\ analysis_result[i] = "none"
                    /\ ~already_extracted(i)
                    /\ ~extraction_marker_exists(i))
    /\ [](launches <= NumItems /\ (pc \in {"ocr", "ocr_wait"} => launches <= k))
    /\ [][/\ (launches' = launches + 1) => ocr_result[pdf_file] = "none"
          /\ (pc = "ocr" /\ pc' # "ocr" /\ ~args.skip_ocr
                /\ extracted_dir[pdf_file] = NoDir) => launches' = launches + 1]_vars

C23_Witness ==
    /\ rerun
    /\ ~args.skip_ocr /\ ~args.skip_analysis
    /\ pc = "completed"
    /\ \E i, j \in SeqRange(pdf_files) :
        /\ disk_at_start[2][i] = NoDir
        /\ ocr_result[i] = "nonzero"
        /\ analysis_result[i] = "none"
        /\ analysis_result[j] = "report"


\* ---- download_pdf on an existing file ----

WorkerFinished(p) == p \in in_flight /\ p \notin in_flight'

\* C24: a download_pdf call that finds a file above 1024 bytes returns skipped,
\* sends no request and leaves the file; a call that finds a file of at most 1024
\* bytes sends a request, and the old file is gone afterwards: what is on disk is
\* what this request wrote, or nothing.
C24_SizeThreshold ==
    /\ [][\A p \in Items :
            WorkerFinished(p) =>
                /\ original_dir[p] = "big" =>
                    /\ LastStatus(p)' = "skipped"
                    /\ original_dir'[p] = "big"
                    /\ served' = served
                /\ original_dir[p] = "small" =>
                    /\ LastStatus(p)' # "skipped"
                    /\ served'.item = p /\ served'.before = "small"]_vars
    /\ []((/\ served.before = "small"
            /\ \/ session_get(served.n503) = "retry_error"
               \/ served.outcome \in {"http_error", "network_error",
                                       "other_error_nofile"})
                => original_dir[served.item] = "absent")

C24_Witness ==
    /\ served.before = "small"
    /\ served.outcome = "http_error"
    /\ original_dir[served.item] = "absent"
    /\ \E q \in Items : statuses[q] = <<"skipped">> /\ original_dir[q] = "big"


\* ---- the worker pool of one round ----

PoolErrors == {p \in PoolPapers : futures[p] = "error"}

\* C25: in a call of process_downloads, under every order in which the workers
\* start and finish, at most max_workers calls of download_pdf run at a time; the
\* failures list holds at every moment exactly the papers whose call returned
\* error, each once; the call returns only when every paper of the batch was
\* attempted, and it does return.
C25_PoolBoundAndFailures ==
    /\ [](Cardinality(PoolRunning) <= max_workers)
    /\ [](/\ SeqRange(pool_failures) = PoolErrors
          /\ Len(pool_failures) = Cardinality(PoolErrors))
    /\ [](pool_pc = "returned" =>
            \A p \in PoolPapers : futures[p] \in {"success", "skipped", "error"})
    /\ (pool_pc = "as_completed") ~> (pool_pc = "returned")

C25_Witness ==
    /\ pool_pc = "as_completed"
    /\ Cardinality(PoolRunning) = max_workers
    /\ \E p, q \in PoolPapers :
        /\ futures[p] = "error"
        /\ futures[q] = "pending"
    /\ Len(pool_failures) = 1


\* ---- PaperContent ----

ImagesAsClaimed(imgs, d) ==
    IF d.images_dir /\ d.crops # {}
    THEN /\ Len(imgs) = Cardinality(d.crops)
         /\ \A j \in 1..Len(imgs) : imgs[j].kind = "crop" /\ imgs[j].name \in d.crops
         /\ \A a, c \in 1..Len(imgs) : a < c => LexLess(imgs[a].name, imgs[c].name)
    ELSE IF d.original THEN imgs = <<original_jpg>>
    ELSE imgs = <<>>

\* C26: the pages PaperContent has loaded are in strictly increasing numeric page
\* index, and once loading is done they are the page folders that exist; the
\* images of each page are all its crops in ascending name order when it has a
\* crop, else original.jpg alone when that exists, else nothing.
C26_PagesOrderedCropsPreferred ==
    /\ \A a, c \in 1..Len(pages) :
            a < c => ParseInt(pages[a].page_num) < ParseInt(pages[c].page_num)
    /\ \A a \in 1..Len(pages) :
            /\ ParseInt(pages[a].page_num) \in PageNums
            /\ page_dirs[ParseInt(pages[a].page_num)].exists
            /\ ImagesAsClaimed(pages[a].images, page_dirs[ParseInt(pages[a].page_num)])
    /\ content_pc = "loaded" =>
            Len(pages) = Cardinality({n \in PageNums : page_dirs[n].exists})

C26_Witness ==
    /\ content_pc = "loaded"
    /\ Len(pages) = 3
    /\ pages[2].page_num = <<2>>
    /\ pages[3].page_num = <<1, 0>>
    /\ Len(pages[1].images) = 3 /\ page_dirs[1].original
    /\ pages[2].images = <<original_jpg>> /\ page_dirs[2].other_file
    /\ pages[3].images = <<>>


\* ---- what the supervisor leaves behind ----

\* C27: when the supervisor has finished, every PDF of the input directory has a
\* non-empty full_extracted.md, and no item has an output directory without its
\* marker.
C27_FinishedMeansAllExtracted ==
    sup_pc = "finished" =>
        \A i \in Items :
            /\ original_dir[i] # "absent" => extracted_dir[i].full_extracted = "full"
            /\ extracted_dir[i].exists => extracted_dir[i].full_extracted # "absent"


\* ---- the item limit ----

\* the papers a run with downloads selects for acquisition: papers[:args.limit]
selected == SeqRange(Truncate(Catalog, args.limit))

\* C28: in a pipeline run with --limit N and downloads enabled, the items of the
\* extraction and analysis loop are among the N papers the run selected for
\* acquisition, and they are at most N.
C28_LoopWithinSelection ==
    (cmd = "pipeline" /\ ~args.skip_download /\ args.limit > 0
            /\ pc \in {"ocr", "ocr_wait", "analysis", "analyze", "completed", "raised"}) =>
        /\ Len(pdf_files) <= args.limit
        /\ SeqRange(pdf_files) \subseteq selected

====
